---- MODULE Spec2Model ----
(***************************************************************************)
(* The session registry and the response-delivery protocol of the          *)
(* MCP <-> Chatmi relay.                                                   *)
(*                                                                         *)
(* Two variants of the relay are modelled, each with its specification:    *)
(*   Spec        src/server.js         fallback chain, session-start frame *)
(*   SpecStrict  src/unnamed/part_002  (lines 1-332) UUID session ids,     *)
(*                                     endpoint event, SSE-or-HTTP reply   *)
(*                                                                         *)
(* A push channel is the `res` object of one GET /sse call.  A request is  *)
(* one POST call; its handler runs in two atomic segments, split at the    *)
(* await of the backend call.                                              *)
(***************************************************************************)
EXTENDS Integers, Sequences, FiniteSets, TLC

\* ---------------------------------------------------------------- bounds
MaxChan == 2    \* GET /sse calls (push channels) in one run
MaxReq  == 1    \* POST calls in one run
MaxTime == 0    \* last reading of the millisecond clock
MaxWarm == 2    \* warmToolsList calls in one run
MaxChanIds == 3 \* push channels in the runs that record the identifiers
MaxReqOrder == 2 \* POST calls in the runs with concurrent requests
MaxPing == 2    \* runs of the keep-alive callback of one channel

Warm == 1..MaxWarm

\* ------------------------------------------------------------ identifiers
\* A falsy identifier: undefined, null or the empty string.
Nil == ""
Truthy(x) == x # Nil

\* `a || b` on identifiers
Or(a, b) == IF Truthy(a) THEN a ELSE b

\* The session identifier a client supplies to the main variant.
Ids == {"a"}

\* `session-${Date.now()}`
GenId(t) == "session-" \o ToString(t)

\* The fixed label of a request that resolves to no session.
DefaultSession == "default"

\* UUID_REGEX.test(provided): "u1" and every generated value have
\* the shape of a UUID, "bad" has not.
ClientUuids == {"u1"}
randomUUID(n) == "uuid-" \o ToString(n)
GenUuids == {randomUUID(n) : n \in 1..(MaxChan + 1)}
UUID_REGEX(x) == x \in ClientUuids \cup GenUuids
StrictSupplied == ClientUuids \cup {"bad"}

\* --------------------------------------------------------- JSON-RPC bodies
\* mcpRequest.jsonrpc, mcpRequest.method ("" when missing), mcpRequest.id
\* ("0" is the number zero and "" the empty string, the falsy ids).
Versions == {"2.0", "1.0"}
Methods  == {"", "initialize", "tools/call"}
RpcIds   == {"7"}
\* The bodies of the runs: the well-formed ones, one without a method and one
\* with a wrong version tag.  The main variant treats every method alike.
Bodies   == {b \in [jsonrpc : Versions, method : Methods, id : RpcIds] :
                 b.jsonrpc = "1.0" => b.method = "tools/call"}
MainBodies == {b \in Bodies : b.method # "initialize"}

\* The bodies of the runs that vary the id of the request.
EchoIds == {"7", "0", ""}
EchoBodies == {[jsonrpc |-> "2.0", method |-> m, id |-> i] :
                   m \in {"", "tools/call"}, i \in EchoIds}

FalsyId(id) == id \in {"0", ""}
\* `req.body?.id || null`
IdOrNull(id) == IF FalsyId(id) THEN "null" ELSE id

VARIABLES
    now,                     \* the last reading of Date.now()
    connections,             \* the Map sessionId -> res, in insertion order
    lastConnectedSessionId,  \* main variant only
    chans,                   \* the res object of every GET /sse call
    wire,                    \* the frames written to every channel, in order
    reqs,                    \* every POST call: its position and its answer
    chatmiToolsListCache,    \* cache variants: the tools/list payload and its time
    warmToolsListPromise,    \* part_001: the refresh in flight (0: none)
    warmToolsListCooldownUntil,  \* part_001: no refresh before this time
    warms,                   \* every warmToolsList call: its position and outcome
    call                     \* the identifiers of the last GET, POST or close

cacheVars == <<chatmiToolsListCache, warmToolsListPromise,
               warmToolsListCooldownUntil, warms>>

vars == <<now, connections, lastConnectedSessionId, chans, wire, reqs,
          cacheVars, call>>

\* The channels of a run: the res objects its GET /sse calls can create.
Chan == DOMAIN chans

\* The requests of a run: its POST calls.
Req == DOMAIN reqs

\* --------------------------------------------------------------- the Map
\* A JavaScript Map keeps its entries in insertion order; set() on a key
\* that is present replaces the value in place.
MapHas(m, k) == \E i \in 1..Len(m) : m[i].k = k
MapGet(m, k) == m[CHOOSE i \in 1..Len(m) : m[i].k = k].v
\* set() that never finds the key.
MapSet_Append(m, k, v) == Append(m, [k |-> k, v |-> v])

MapSet(m, k, v) ==
    IF MapHas(m, k)
    THEN [i \in 1..Len(m) |-> IF m[i].k = k THEN [k |-> k, v |-> v] ELSE m[i]]
    ELSE Append(m, [k |-> k, v |-> v])
\* delete() of the oldest entry instead of the entry of the key.
MapDelete_First(m, k) == IF Len(m) = 0 THEN m ELSE Tail(m)

MapDelete(m, k) == SelectSeq(m, LAMBDA e : e.k # k)
MapSize(m) == Len(m)
\* connections.keys().next().value (Nil for undefined)
MapFirstKey(m) == IF Len(m) = 0 THEN Nil ELSE m[1].k
MapKeys(m) == {m[i].k : i \in 1..Len(m)}
MapValues(m) == {m[i].v : i \in 1..Len(m)}

\* ------------------------------------------------------------- channels
\* keepAlive: the interval timer of the channel is armed; pings: how often
\* its callback has run; routePrefix: the prefix the namespaced variant
\* stores with the channel in its registry entry.
NoChan == [st |-> "unused", sid |-> Nil, writableEnded |-> FALSE,
           writableFinished |-> FALSE, destroyed |-> FALSE, keepAlive |-> FALSE,
           pings |-> 0, routePrefix |-> Nil]

\* A channel whose close handler has run: the timer is cleared, and the
\* identifier its handlers captured is no longer used.
ClosedChan == [NoChan EXCEPT !.st = "closed", !.destroyed = TRUE]

\* The channel that the next GET /sse call creates (0 when the bound is hit).
FreshChan ==
    IF \E c \in Chan : chans[c].st = "unused"
    THEN CHOOSE c \in Chan : chans[c].st = "unused"
                             /\ \A d \in Chan : chans[d].st = "unused" => c <= d
    ELSE 0

\* --------------------------------------------------------------- frames
\* One SSE frame: `event:` line ("" when there is none), the wrapper type of
\* the payload ("" when the envelope is written bare), and the payload:
\* kind, the request it answers (0: none), the echoed id, the error code and
\* (session and endpoint frames) the session identifier it carries.
Frame(event, type, kind, r, id, code, sid) ==
    [event |-> event, type |-> type, kind |-> kind, req |-> r, id |-> id,
     code |-> code, sid |-> sid]

\* An HTTP answer: status and body.
NoHttp == [status |-> 0, kind |-> "none", id |-> "", code |-> 0]
Http(status, kind, id, code) ==
    [status |-> status, kind |-> kind, id |-> id, code |-> code]

\* A warmToolsList call: its position, whether it has failed and, once it
\* has failed with HTTP 429, the clock reading of the failure.
NoWarm == [st |-> "unused", failed |-> FALSE, failed429 |-> FALSE, ended |-> 0]

\* The identifiers of a call: `sessionId` and `session` of the query, and the
\* x-session-id header.
NoCall == [op |-> "none", sessionId |-> Nil, session |-> Nil, header |-> Nil]
Call(op, qSessionId, qSession, h) ==
    [op |-> op, sessionId |-> qSessionId, session |-> qSession, header |-> h]

NoReq == [pc |-> "new", sessionId |-> Nil,
          body |-> [jsonrpc |-> "2.0", method |-> "", id |-> "7"],
          http |-> NoHttp]

FreshReq ==
    IF \E r \in Req : reqs[r].pc = "new"
    THEN CHOOSE r \in Req : reqs[r].pc = "new"
                            /\ \A q \in Req : reqs[q].pc = "new" => r <= q
    ELSE 0


\* ============================================================ main variant
\* writeToConnection: the liveness test of the channel, then the write.
Live(ch) == ~ch.writableEnded /\ ~ch.writableFinished /\ ~ch.destroyed

\* A write that puts the frame in front of what the channel already holds.
writeToConnection_Front(w, chs, c, f) ==
    IF Live(chs[c]) THEN [w EXCEPT ![c] = <<f>> \o @] ELSE w

writeToConnection(w, chs, c, f) ==
    IF Live(chs[c]) THEN [w EXCEPT ![c] = Append(@, f)] ELSE w

\* The if-chain without its first branch: the named session is not looked up.
WriteTargets_Broadcast(conns, sessionId) ==
    IF MapSize(conns) = 1
    THEN <<conns[1].v>>
    ELSE [i \in 1..Len(conns) |-> conns[i].v]

\* The if-chain without the branch of the single connection.
WriteTargets_NoSingle(conns, sessionId) ==
    IF Truthy(sessionId) /\ MapHas(conns, sessionId)
    THEN <<MapGet(conns, sessionId)>>
    ELSE IF MapSize(conns) > 1
    THEN [i \in 1..Len(conns) |-> conns[i].v]
    ELSE <<>>

\* The broadcast loop left after its first entry.
WriteTargets_FirstOnly(conns, sessionId) ==
    IF Truthy(sessionId) /\ MapHas(conns, sessionId)
    THEN <<MapGet(conns, sessionId)>>
    ELSE IF MapSize(conns) >= 1
    THEN <<conns[1].v>>
    ELSE <<>>

\* The channels writeSsePayload hands to writeToConnection, in order: the
\* branches of its if-chain.
WriteTargets(conns, sessionId) ==
    IF Truthy(sessionId) /\ MapHas(conns, sessionId)
    THEN <<MapGet(conns, sessionId)>>
    ELSE IF MapSize(conns) = 1
    THEN <<conns[1].v>>
    ELSE IF MapSize(conns) > 1
    THEN [i \in 1..Len(conns) |-> conns[i].v]
    ELSE <<>>

RECURSIVE WriteEach(_, _, _, _)
WriteEach(w, chs, targets, f) ==
    IF targets = <<>> THEN w
    ELSE WriteEach(writeToConnection(w, chs, Head(targets), f), chs,
                   Tail(targets), f)

writeSsePayload(w, conns, chs, sessionId, f) ==
    WriteEach(w, chs, WriteTargets(conns, sessionId), f)

\* GET /sse that writes the session frame before it registers the channel.
GetSse_FrameFirst(q, t) ==
    /\ FreshChan # 0
    /\ IF Truthy(q) THEN t = now ELSE t \in now..MaxTime
    /\ now' = t
    /\ LET c == FreshChan
           sessionId == Or(q, GenId(t))
           chs == [chans EXCEPT ![c] = [NoChan EXCEPT !.st = "open",
                                                      !.sid = sessionId,
                                                      !.keepAlive = TRUE]]
       IN /\ connections' = MapSet(connections, sessionId, c)
          /\ lastConnectedSessionId' = sessionId
          /\ chans' = chs
          /\ wire' = writeSsePayload(wire, connections, chs, sessionId,
                         Frame("", "session", "session", 0, "", 0, sessionId))
    /\ UNCHANGED <<reqs>>
    /\ UNCHANGED cacheVars

\* GET /sse: register the channel, remember it as the last connected one,
\* emit the session-start frame, start the keep-alive timer.
\* Date.now() is read only when the query names no session; t is the reading.
GetSse(q, t) ==
    /\ FreshChan # 0
    /\ IF Truthy(q) THEN t = now ELSE t \in now..MaxTime
    /\ now' = t
    /\ LET c == FreshChan
           sessionId == Or(q, GenId(t))
           conns == MapSet(connections, sessionId, c)
           chs == [chans EXCEPT ![c] = [NoChan EXCEPT !.st = "open",
                                                      !.sid = sessionId,
                                                      !.keepAlive = TRUE]]
       IN /\ connections' = conns
          /\ lastConnectedSessionId' = sessionId
          /\ chans' = chs
          /\ wire' = writeSsePayload(wire, conns, chs, sessionId,
                         Frame("", "session", "session", 0, "", 0, sessionId))
    /\ UNCHANGED <<reqs>>
    /\ UNCHANGED cacheVars

\* The close handler without the repair of lastConnectedSessionId.
ReqClose_NoRepair(c) ==
    /\ chans[c].st = "open"
    /\ chans[c].destroyed
    /\ connections' = MapDelete(connections, chans[c].sid)
    /\ chans' = [chans EXCEPT ![c] = ClosedChan]
    /\ UNCHANGED <<now, lastConnectedSessionId, wire, reqs>>
    /\ UNCHANGED cacheVars

\* req.on('close') of the channel c: stop the timer, delete the entry stored
\* under the identifier the channel was opened with, repair
\* lastConnectedSessionId.
ReqClose(c) ==
    /\ chans[c].st = "open"
    /\ chans[c].destroyed
    /\ LET sessionId == chans[c].sid
           conns == MapDelete(connections, sessionId)
       IN /\ connections' = conns
          /\ lastConnectedSessionId' =
                IF lastConnectedSessionId = sessionId
                THEN MapFirstKey(conns)
                ELSE lastConnectedSessionId
          /\ chans' = [chans EXCEPT ![c] = ClosedChan]
    /\ UNCHANGED <<now, wire, reqs>>
    /\ UNCHANGED cacheVars

\* The session a POST resolves to: query, header, the only registered
\* session, the last connected one, 'default'.
ResolveSession(q, h) ==
    LET s1 == Or(q, h)
        s2 == IF ~Truthy(s1) /\ MapSize(connections) = 1
              THEN MapFirstKey(connections) ELSE s1
    IN IF ~Truthy(s2) THEN Or(lastConnectedSessionId, DefaultSession) ELSE s2

Malformed(body) == body.jsonrpc # "2.0" \/ body.method = ""

\* POST /sse up to the await of the backend call.
PostSse(q, h, body) ==
    /\ FreshReq # 0
    /\ LET r == FreshReq
           sessionId == ResolveSession(q, h)
       IN reqs' = [reqs EXCEPT ![r] =
              IF Malformed(body)
              THEN [pc |-> "done", sessionId |-> Nil, body |-> body,
                    http |-> Http(400, "error", IdOrNull(body.id), -32600)]
              ELSE [pc |-> "backend", sessionId |-> sessionId, body |-> body,
                    http |-> NoHttp]]
    /\ UNCHANGED <<now, connections, lastConnectedSessionId, chans, wire>>
    /\ UNCHANGED cacheVars

\* deliverMcpResponse answering 'sent via SSE' whatever was sent.
deliverMcpResponse_Ack(r, sessionId, kind, id, code, statusCode) ==
    /\ wire' = writeSsePayload(wire, connections, chans, sessionId,
                   Frame("", "response", kind, r, id, code, ""))
    /\ reqs' = [reqs EXCEPT ![r].pc = "done",
                            ![r].http = Http(202, "ack", "", 0)]

\* deliverMcpResponse: push the envelope, then answer the POST with the
\* envelope itself.
deliverMcpResponse(r, sessionId, kind, id, code, statusCode) ==
    /\ wire' = writeSsePayload(wire, connections, chans, sessionId,
                   Frame("", "response", kind, r, id, code, ""))
    /\ reqs' = [reqs EXCEPT ![r].pc = "done",
                            ![r].http = Http(statusCode, kind, id, code)]

\* The try block failing after it has delivered the result: the catch block
\* delivers the error envelope as well.
ChatmiReturn_CatchAfterDeliver(r, ok) ==
    /\ reqs[r].pc = "backend"
    /\ LET sessionId == reqs[r].sessionId
           pushed == IF ok
                     THEN writeSsePayload(wire, connections, chans, sessionId,
                              Frame("", "response", "result", r,
                                    reqs[r].body.id, 0, ""))
                     ELSE wire
       IN /\ wire' = writeSsePayload(pushed, connections, chans, sessionId,
                          Frame("", "response", "error", r,
                                IdOrNull(reqs[r].body.id), -32603, ""))
          /\ reqs' = [reqs EXCEPT
                 ![r].pc = "done",
                 ![r].http = Http(500, "error", IdOrNull(reqs[r].body.id), -32603)]
    /\ UNCHANGED <<now, connections, lastConnectedSessionId, chans>>
    /\ UNCHANGED cacheVars

\* POST /sse whose catch block logs the failure and sends nothing.
ChatmiReturn_NoAnswerOnError(r, ok) ==
    /\ reqs[r].pc = "backend"
    /\ IF ok
       THEN deliverMcpResponse(r, reqs[r].sessionId, "result",
                               reqs[r].body.id, 0, 200)
       ELSE /\ wire' = wire
            /\ reqs' = [reqs EXCEPT ![r].pc = "done"]
    /\ UNCHANGED <<now, connections, lastConnectedSessionId, chans>>
    /\ UNCHANGED cacheVars

\* POST /sse whose delivery drops the registry entries of the channels that
\* are not live.
ChatmiReturn_DropDead(r, ok) ==
    /\ reqs[r].pc = "backend"
    /\ IF ok
       THEN deliverMcpResponse(r, reqs[r].sessionId, "result",
                               reqs[r].body.id, 0, 200)
       ELSE deliverMcpResponse(r, reqs[r].sessionId, "error",
                               IdOrNull(reqs[r].body.id), -32603, 500)
    /\ connections' = SelectSeq(connections, LAMBDA e : Live(chans[e.v]))
    /\ UNCHANGED <<now, lastConnectedSessionId, chans>>
    /\ UNCHANGED cacheVars

\* POST /sse from the completion of sendChatmiRequest on: the result, or the
\* catch block's error envelope.
ChatmiReturn(r, ok) ==
    /\ reqs[r].pc = "backend"
    /\ IF ok
       THEN deliverMcpResponse(r, reqs[r].sessionId, "result",
                               reqs[r].body.id, 0, 200)
       ELSE deliverMcpResponse(r, reqs[r].sessionId, "error",
                               IdOrNull(reqs[r].body.id), -32603, 500)
    /\ UNCHANGED <<now, connections, lastConnectedSessionId, chans>>
    /\ UNCHANGED cacheVars

\* The callback of keepAliveInterval: an unchecked res.write of the ping
\* comment.  On a channel that is ended or destroyed the write fails and
\* nothing goes out; the callback has no handler for that and the timer
\* stays armed until the close handler clears it.
KeepAlive(c) ==
    /\ chans[c].keepAlive
    /\ chans[c].pings < MaxPing
    /\ chans' = [chans EXCEPT ![c].pings = @ + 1]
    /\ wire' = IF Live(chans[c])
               THEN [wire EXCEPT ![c] = Append(@, Frame("", "", "ping", 0, "", 0, ""))]
               ELSE wire
    /\ UNCHANGED <<now, connections, lastConnectedSessionId, reqs>>
    /\ UNCHANGED cacheVars

\* ============================================================= environment
\* The transport layer marks a channel destroyed when its socket closes; the
\* close event of the request follows.  No handler ends a push channel, so
\* writableEnded and writableFinished stay false.
Teardown(c) ==
    /\ chans[c].st = "open"
    /\ ~chans[c].destroyed
    /\ chans' = [chans EXCEPT ![c].destroyed = TRUE]
    /\ UNCHANGED <<now, connections, lastConnectedSessionId, wire, reqs>>
    /\ UNCHANGED cacheVars

\* ========================================================== strict variant
\* req.query.sessionId || req.query.session || req.headers['x-session-id']
extractSessionId(qSessionId, qSession, h) == Or(qSessionId, Or(qSession, h))

\* ensureSessionId that never generates an identifier.
ensureSessionId_NoCreate(provided, createIfMissing, n) ==
    IF Truthy(provided) /\ UUID_REGEX(provided) THEN provided ELSE Nil

\* ensureSessionId without the test of the UUID pattern.
ensureSessionId_AnyId(provided, createIfMissing, n) ==
    IF Truthy(provided) THEN provided
    ELSE IF ~createIfMissing THEN Nil
    ELSE randomUUID(n)

\* ensureSessionId: the supplied identifier when it is a UUID, otherwise a
\* generated one (GET) or none (POST).  n numbers the randomUUID() call.
ensureSessionId(provided, createIfMissing, n) ==
    IF Truthy(provided) /\ UUID_REGEX(provided) THEN provided
    ELSE IF ~createIfMissing THEN Nil
    ELSE randomUUID(n)

\* sendSseEvent: write to the channel registered under sessionId, whatever
\* its state; false when there is none.
sendSseEvent(w, conns, sessionId, f) ==
    IF ~MapHas(conns, sessionId)
    THEN [ok |-> FALSE, wire |-> w]
    ELSE [ok |-> TRUE,
          wire |-> [w EXCEPT ![MapGet(conns, sessionId)] = Append(@, f)]]

\* What a client can put into a request of the strict variant: nothing, a
\* UUID of its own, a malformed value, or an identifier it was given in an
\* endpoint event.
StrictInputs ==
    {Nil} \cup StrictSupplied \cup {chans[c].sid : c \in {d \in Chan : chans[d].st # "unused"}}

\* What the same client puts into `session` and `x-session-id`.
StrictOther == {<<Nil, Nil>>, <<"u1", Nil>>, <<Nil, "u1">>}

\* GET /sse that registers the channel and sends no endpoint event.
GetSseStrict_NoEndpoint(qSessionId, qSession, h) ==
    /\ FreshChan # 0
    /\ LET c == FreshChan
           sessionId == ensureSessionId(extractSessionId(qSessionId, qSession, h),
                                        TRUE, c)
       IN /\ connections' = MapSet(connections, sessionId, c)
          /\ chans' = [chans EXCEPT ![c] = [NoChan EXCEPT !.st = "open",
                                                          !.sid = sessionId]]
    /\ UNCHANGED <<now, lastConnectedSessionId, wire, reqs>>
    /\ UNCHANGED cacheVars

\* GET /sse: register the channel and send the endpoint event.
GetSseStrict(qSessionId, qSession, h) ==
    /\ FreshChan # 0
    /\ LET c == FreshChan
           sessionId == ensureSessionId(extractSessionId(qSessionId, qSession, h),
                                        TRUE, c)
           conns == MapSet(connections, sessionId, c)
       IN /\ connections' = conns
          /\ chans' = [chans EXCEPT ![c] = [NoChan EXCEPT !.st = "open",
                                                          !.sid = sessionId]]
          /\ wire' = sendSseEvent(wire, conns, sessionId,
                         Frame("endpoint", "", "endpoint", 0, "", 0, sessionId)).wire
    /\ UNCHANGED <<now, lastConnectedSessionId, reqs>>
    /\ UNCHANGED cacheVars

\* req.on('close') of the channel c.
ReqCloseStrict(c) ==
    /\ chans[c].st = "open"
    /\ chans[c].destroyed
    /\ connections' = MapDelete(connections, chans[c].sid)
    /\ chans' = [chans EXCEPT ![c] = ClosedChan]
    /\ UNCHANGED <<now, lastConnectedSessionId, wire, reqs>>
    /\ UNCHANGED cacheVars

\* The tail of handleMcpMessage: the envelope goes to the session's channel
\* and the POST is acknowledged, or, without a channel, the envelope is the
\* answer of the POST.
SseOrHttp(r, sessionId, event, kind, id, code, statusCode) ==
    LET sent == sendSseEvent(wire, connections, sessionId,
                             Frame(event, "", kind, r, id, code, ""))
    IN /\ wire' = sent.wire
       /\ reqs' = [reqs EXCEPT
              ![r].pc = "done",
              ![r].sessionId = sessionId,
              ![r].http = IF sent.ok THEN Http(202, "ack", "", 0)
                          ELSE Http(statusCode, kind, id, code)]

\* handleMcpMessage up to the await of the backend call.
handleMcpMessage(qSessionId, qSession, h, body) ==
    /\ FreshReq # 0
    /\ LET r == FreshReq
           sessionId == ensureSessionId(extractSessionId(qSessionId, qSession, h),
                                        FALSE, 0)
       IN IF ~Truthy(sessionId)
          THEN /\ reqs' = [reqs EXCEPT ![r] =
                     [pc |-> "done", sessionId |-> Nil, body |-> body,
                      http |-> Http(400, "error", IdOrNull(body.id), -32602)]]
               /\ wire' = wire
          ELSE IF body.jsonrpc # "2.0"
          THEN /\ reqs' = [reqs EXCEPT ![r] =
                     [pc |-> "done", sessionId |-> Nil, body |-> body,
                      http |-> Http(400, "error", IdOrNull(body.id), -32600)]]
               /\ wire' = wire
          ELSE IF body.method = "initialize"
          THEN LET sent == sendSseEvent(wire, connections, sessionId,
                               Frame("message", "", "result", r, body.id, 0, ""))
               IN /\ wire' = sent.wire
                  /\ reqs' = [reqs EXCEPT ![r] =
                        [pc |-> "done", sessionId |-> sessionId, body |-> body,
                         http |-> IF sent.ok THEN Http(202, "ack", "", 0)
                                  ELSE Http(200, "result", body.id, 0)]]
          ELSE /\ reqs' = [reqs EXCEPT ![r] =
                     [pc |-> "backend", sessionId |-> sessionId, body |-> body,
                      http |-> NoHttp]]
               /\ wire' = wire
    /\ UNCHANGED <<now, connections, lastConnectedSessionId, chans>>
    /\ UNCHANGED cacheVars

\* handleMcpMessage from the completion of the backend call on.
ChatmiReturnStrict(r, ok) ==
    /\ reqs[r].pc = "backend"
    /\ IF ok
       THEN SseOrHttp(r, reqs[r].sessionId, "message", "result",
                      reqs[r].body.id, 0, 200)
       ELSE SseOrHttp(r, reqs[r].sessionId, "error", "error",
                      IdOrNull(reqs[r].body.id), -32603, 500)
    /\ UNCHANGED <<now, connections, lastConnectedSessionId, chans>>
    /\ UNCHANGED cacheVars

\* ====================================================== namespaced variant
\* src/unnamed/part_002, lines 334-738: the strict variant with routes
\* /:channelId/sse and /:channelId/message.  A registry entry holds the
\* channel and the route prefix of the call that opened it.
CHATMI_BASE_URL == "base"
CHATMI_WEBHOOK_SUFFIX == "bot_api_webhook"
CHATMI_FALLBACK_ENDPOINT == <<CHATMI_BASE_URL, CHATMI_WEBHOOK_SUFFIX>>

\* req.params.channelId: a prefix, or Nil on the routes without one.
Prefixes == {"x", "y"}

buildChatmiEndpoint(routePrefix) ==
    IF Truthy(routePrefix)
    THEN <<CHATMI_BASE_URL, routePrefix, CHATMI_WEBHOOK_SUFFIX>>
    ELSE CHATMI_FALLBACK_ENDPOINT

\* connection?.routePrefix || '' for the entry under sessionId
connectionPrefix(sessionId) ==
    IF Truthy(sessionId) /\ MapHas(connections, sessionId)
    THEN chans[MapGet(connections, sessionId)].routePrefix
    ELSE Nil

\* getRoutePrefix: the parameter of the route, otherwise the prefix stored
\* with the entry under the identifier the call supplies.
getRoutePrefix(channelId, provided) ==
    IF Truthy(channelId) THEN channelId ELSE connectionPrefix(provided)

\* handleSseConnection: register the channel with its route prefix and send
\* the endpoint event.
handleSseConnection(channelId, qSessionId, qSession, h) ==
    /\ FreshChan # 0
    /\ LET c == FreshChan
           provided == extractSessionId(qSessionId, qSession, h)
           sessionId == ensureSessionId(provided, TRUE, c)
           routePrefix == getRoutePrefix(channelId, provided)
           conns == MapSet(connections, sessionId, c)
       IN /\ connections' = conns
          /\ chans' = [chans EXCEPT ![c] = [NoChan EXCEPT !.st = "open",
                                                          !.sid = sessionId,
                                                          !.routePrefix = routePrefix]]
          /\ wire' = sendSseEvent(wire, conns, sessionId,
                         Frame("endpoint", "", "endpoint", 0, "", 0, sessionId)).wire
    /\ UNCHANGED <<now, lastConnectedSessionId, reqs>>
    /\ UNCHANGED cacheVars

\* The handler that prefers the prefix of the registry entry to the prefix
\* of the request.
handleMcpMessageNs_EntryFirst(channelId, qSessionId, qSession, h, body) ==
    /\ FreshReq # 0
    /\ LET r == FreshReq
           provided == extractSessionId(qSessionId, qSession, h)
           sessionId == ensureSessionId(provided, FALSE, 0)
           requestPrefix == getRoutePrefix(channelId, provided)
           routePrefix == Or(connectionPrefix(sessionId), requestPrefix)
           rec == [pc |-> "done", sessionId |-> Nil, body |-> body,
                   http |-> NoHttp, param |-> channelId,
                   endpoint |-> buildChatmiEndpoint(routePrefix)]
       IN IF ~Truthy(sessionId)
          THEN /\ reqs' = [reqs EXCEPT ![r] =
                     [rec EXCEPT !.http = Http(400, "error", IdOrNull(body.id), -32602),
                                 !.endpoint = <<>>]]
               /\ wire' = wire
          ELSE IF body.jsonrpc # "2.0"
          THEN /\ reqs' = [reqs EXCEPT ![r] =
                     [rec EXCEPT !.http = Http(400, "error", IdOrNull(body.id), -32600)]]
               /\ wire' = wire
          ELSE IF body.method = "initialize"
          THEN LET sent == sendSseEvent(wire, connections, sessionId,
                               Frame("message", "", "result", r, body.id, 0, ""))
               IN /\ wire' = sent.wire
                  /\ reqs' = [reqs EXCEPT ![r] =
                        [rec EXCEPT !.sessionId = sessionId,
                                    !.http = IF sent.ok THEN Http(202, "ack", "", 0)
                                             ELSE Http(200, "result", body.id, 0)]]
          ELSE /\ reqs' = [reqs EXCEPT ![r] =
                     [rec EXCEPT !.pc = "backend", !.sessionId = sessionId]]
               /\ wire' = wire
    /\ UNCHANGED <<now, connections, lastConnectedSessionId, chans>>
    /\ UNCHANGED cacheVars

\* handleMcpMessage of the namespaced half up to the await of the backend
\* call: the endpoint of the call is built before the body is validated.
\* `param` keeps the prefix of the request's route, `endpoint` the URL the
\* fetch of line 567 is given.
handleMcpMessageNs(channelId, qSessionId, qSession, h, body) ==
    /\ FreshReq # 0
    /\ LET r == FreshReq
           provided == extractSessionId(qSessionId, qSession, h)
           sessionId == ensureSessionId(provided, FALSE, 0)
           requestPrefix == getRoutePrefix(channelId, provided)
           routePrefix == Or(requestPrefix, connectionPrefix(sessionId))
           rec == [pc |-> "done", sessionId |-> Nil, body |-> body,
                   http |-> NoHttp, param |-> channelId,
                   endpoint |-> buildChatmiEndpoint(routePrefix)]
       IN IF ~Truthy(sessionId)
          THEN /\ reqs' = [reqs EXCEPT ![r] =
                     [rec EXCEPT !.http = Http(400, "error", IdOrNull(body.id), -32602),
                                 !.endpoint = <<>>]]
               /\ wire' = wire
          ELSE IF body.jsonrpc # "2.0"
          THEN /\ reqs' = [reqs EXCEPT ![r] =
                     [rec EXCEPT !.http = Http(400, "error", IdOrNull(body.id), -32600)]]
               /\ wire' = wire
          ELSE IF body.method = "initialize"
          THEN LET sent == sendSseEvent(wire, connections, sessionId,
                               Frame("message", "", "result", r, body.id, 0, ""))
               IN /\ wire' = sent.wire
                  /\ reqs' = [reqs EXCEPT ![r] =
                        [rec EXCEPT !.sessionId = sessionId,
                                    !.http = IF sent.ok THEN Http(202, "ack", "", 0)
                                             ELSE Http(200, "result", body.id, 0)]]
          ELSE /\ reqs' = [reqs EXCEPT ![r] =
                     [rec EXCEPT !.pc = "backend", !.sessionId = sessionId]]
               /\ wire' = wire
    /\ UNCHANGED <<now, connections, lastConnectedSessionId, chans>>
    /\ UNCHANGED cacheVars

\* ========================================================== cache variant
\* src/unnamed/part_001: the tools/list cache with its guarded refresh.
TOOLS_LIST_CACHE_TTL == 60 * 1000
WARMUP_COOLDOWN_MS == 10000

\* The readings of Date.now() a run can make: the start, and both sides of
\* the end of a cooldown and of the end of a cache entry's life.
TimePoints == {0, WARMUP_COOLDOWN_MS - 1, WARMUP_COOLDOWN_MS,
               TOOLS_LIST_CACHE_TTL - 1, TOOLS_LIST_CACHE_TTL}
Readings(t0) == {t \in TimePoints : t >= t0}

\* What sendChatmiRequest returns: the parsed text of the backend's answer
\* ("null" is the JSON value null).
Payloads == {"null", "p1", "p2"}

\* The cache is valid up to and including the 60th second.
isToolsListCacheValid_Inclusive(t) ==
    /\ chatmiToolsListCache.data # "null"
    /\ t - chatmiToolsListCache.timestamp <= TOOLS_LIST_CACHE_TTL

\* isToolsListCacheValid, with t the reading of Date.now()
isToolsListCacheValid(t) ==
    /\ chatmiToolsListCache.data # "null"
    /\ t - chatmiToolsListCache.timestamp < TOOLS_LIST_CACHE_TTL

\* A reply envelope with its result, as a frame and as an HTTP answer.
FrameResult(r, id, result) ==
    [event |-> "", type |-> "", kind |-> "result", req |-> r, id |-> id,
     code |-> 0, sid |-> "", result |-> result]
HttpResult(status, id, result) ==
    [status |-> status, kind |-> "result", id |-> id, code |-> 0,
     result |-> result]

\* writeToConnection of part_001: writableFinished is not tested.
LiveCache(ch) == ~ch.writableEnded /\ ~ch.destroyed

RECURSIVE WriteEachCache(_, _, _, _)
WriteEachCache(w, chs, targets, f) ==
    IF targets = <<>> THEN w
    ELSE WriteEachCache(IF LiveCache(chs[Head(targets)])
                        THEN [w EXCEPT ![Head(targets)] = Append(@, f)]
                        ELSE w,
                        chs, Tail(targets), f)

\* deliverMcpResponse of part_001: the same if-chain, the bare envelope as
\* the frame, and the envelope as the HTTP answer.
deliverMcpResponseCache(r, sessionId, result) ==
    /\ wire' = WriteEachCache(wire, chans, WriteTargets(connections, sessionId),
                              FrameResult(r, reqs[r].body.id, result))
    /\ reqs' = [reqs EXCEPT ![r].pc = "done",
                            ![r].http = HttpResult(200, reqs[r].body.id, result)]

\* The warmToolsList call that the next refresh creates (0 at the bound).
FreshWarm ==
    IF \E w \in Warm : warms[w].st = "unused"
    THEN CHOOSE w \in Warm : warms[w].st = "unused"
                             /\ \A x \in Warm : warms[x].st = "unused" => w <= x
    ELSE 0

\* triggerWarmToolsList starts a refresh: the cache is not valid, no cooldown
\* is active and no refresh is in flight.  u is its reading of the clock.
StartsWarm(u) ==
    /\ ~isToolsListCacheValid(u)
    /\ ~(u < warmToolsListCooldownUntil)
    /\ warmToolsListPromise = 0

triggerWarmToolsList(u) ==
    IF StartsWarm(u)
    THEN /\ FreshWarm # 0
         /\ warmToolsListPromise' = FreshWarm
         /\ warms' = [warms EXCEPT ![FreshWarm] =
                [NoWarm EXCEPT !.st = "running"]]
    ELSE UNCHANGED <<warmToolsListPromise, warms>>

\* GET /sse of part_001: register the channel, then refresh the cache when
\* it is not valid.  t is the reading of lines 359 and 382, u the reading
\* inside triggerWarmToolsList.
GetSseCache(q, t, u) ==
    /\ FreshChan # 0
    /\ t \in Readings(now) /\ u \in Readings(t)
    /\ LET c == FreshChan
           sessionId == Or(q, GenId(t))
       IN /\ connections' = MapSet(connections, sessionId, c)
          /\ lastConnectedSessionId' = sessionId
          /\ chans' = [chans EXCEPT ![c] = [NoChan EXCEPT !.st = "open",
                                                          !.sid = sessionId,
                                                          !.keepAlive = TRUE]]
    /\ IF isToolsListCacheValid(t)
       THEN u = t /\ UNCHANGED <<warmToolsListPromise, warms>>
       ELSE triggerWarmToolsList(u)
    /\ now' = u
    /\ UNCHANGED <<wire, reqs, chatmiToolsListCache, warmToolsListCooldownUntil>>

\* POST /sse of part_001 up to the await of the backend call: a tools/list
\* request is answered from a valid cache, and the refresh is triggered.
\* t is the reading of line 445 (kept in the request as `at`), u the reading
\* inside triggerWarmToolsList.
PostSseCache(q, h, body, t, u) ==
    /\ FreshReq # 0
    /\ t \in Readings(now) /\ u \in Readings(t)
    /\ LET r == FreshReq
           sessionId == ResolveSession(q, h)
           rec == [pc |-> "backend", sessionId |-> sessionId, body |-> body,
                   http |-> NoHttp,
                   at |-> IF body.method = "tools/list" THEN t ELSE 0]
       IN IF Malformed(body)
          THEN /\ t = now /\ u = now
               /\ reqs' = [reqs EXCEPT ![r] =
                      [pc |-> "done", sessionId |-> Nil, body |-> body,
                       http |-> Http(400, "error", IdOrNull(body.id), -32600),
                       at |-> 0]]
               /\ UNCHANGED <<wire, warmToolsListPromise, warms>>
          ELSE IF body.method = "tools/list" /\ isToolsListCacheValid(t)
          THEN /\ wire' = WriteEachCache(wire, chans,
                              WriteTargets(connections, sessionId),
                              FrameResult(r, body.id, chatmiToolsListCache.data))
               /\ reqs' = [reqs EXCEPT ![r] =
                      [rec EXCEPT !.pc = "done",
                                  !.http = HttpResult(200, body.id,
                                               chatmiToolsListCache.data)]]
               /\ triggerWarmToolsList(u)
          ELSE /\ u = t
               /\ body.method # "tools/list" => t = now
               /\ reqs' = [reqs EXCEPT ![r] = rec]
               /\ UNCHANGED <<wire, warmToolsListPromise, warms>>
    /\ now' = u
    /\ UNCHANGED <<connections, lastConnectedSessionId, chans,
                   chatmiToolsListCache, warmToolsListCooldownUntil>>

\* POST /sse that caches the result of every method.
ChatmiReturnCache_AnyMethod(r, res, t) ==
    /\ reqs[r].pc = "backend"
    /\ t \in Readings(now)
    /\ IF res \in Payloads
       THEN /\ chatmiToolsListCache' = [data |-> res, timestamp |-> t]
            /\ deliverMcpResponseCache(r, reqs[r].sessionId, res)
       ELSE /\ t = now
            /\ reqs' = [reqs EXCEPT
                   ![r].pc = "done",
                   ![r].http = Http(500, "error", IdOrNull(reqs[r].body.id), -32603)]
            /\ UNCHANGED <<wire, chatmiToolsListCache>>
    /\ now' = t
    /\ UNCHANGED <<connections, lastConnectedSessionId, chans,
                   warmToolsListPromise, warmToolsListCooldownUntil, warms>>

\* POST /sse of part_001 from the completion of sendChatmiRequest on: a
\* tools/list result is written to the cache; a failure is answered with
\* HTTP 500 alone.
ChatmiReturnCache(r, res, t) ==
    /\ reqs[r].pc = "backend"
    /\ t \in Readings(now)
    /\ IF res \in Payloads
       THEN /\ IF reqs[r].body.method = "tools/list"
               THEN chatmiToolsListCache' = [data |-> res, timestamp |-> t]
               ELSE t = now /\ UNCHANGED chatmiToolsListCache
            /\ deliverMcpResponseCache(r, reqs[r].sessionId, res)
       ELSE /\ t = now
            /\ reqs' = [reqs EXCEPT
                   ![r].pc = "done",
                   ![r].http = Http(500, "error", IdOrNull(reqs[r].body.id), -32603)]
            /\ UNCHANGED <<wire, chatmiToolsListCache>>
    /\ now' = t
    /\ UNCHANGED <<connections, lastConnectedSessionId, chans,
                   warmToolsListPromise, warmToolsListCooldownUntil, warms>>

\* A catch handler that calls warmToolsList again after a failure.
WarmReturn_Retry(w, res, t) ==
    /\ warms[w].st = "running"
    /\ t \in Readings(now)
    /\ IF res \in Payloads
       THEN /\ chatmiToolsListCache' = [data |-> res, timestamp |-> t]
            /\ warmToolsListCooldownUntil' = 0
       ELSE /\ UNCHANGED chatmiToolsListCache
            /\ IF res = "429"
               THEN warmToolsListCooldownUntil' = t + WARMUP_COOLDOWN_MS
               ELSE t = now /\ UNCHANGED warmToolsListCooldownUntil
    /\ LET ended == IF res = "429"
                    THEN [st |-> "done", failed |-> TRUE, failed429 |-> TRUE,
                          ended |-> t]
                    ELSE [NoWarm EXCEPT !.st = "done",
                                        !.failed = (res \notin Payloads)]
           again == res \notin Payloads /\ FreshWarm # 0
       IN /\ warmToolsListPromise' = IF again THEN FreshWarm ELSE 0
          /\ warms' = IF again
                      THEN [warms EXCEPT ![w] = ended,
                                         ![FreshWarm] = [NoWarm EXCEPT !.st = "running"]]
                      ELSE [warms EXCEPT ![w] = ended]
    /\ now' = t
    /\ UNCHANGED <<connections, lastConnectedSessionId, chans, wire, reqs>>

\* warmToolsList without its third assignment: a success leaves the cooldown
\* as it was.
WarmReturn_KeepCooldown(w, res, t) ==
    /\ warms[w].st = "running"
    /\ t \in Readings(now)
    /\ IF res \in Payloads
       THEN /\ chatmiToolsListCache' = [data |-> res, timestamp |-> t]
            /\ UNCHANGED warmToolsListCooldownUntil
       ELSE /\ UNCHANGED chatmiToolsListCache
            /\ IF res = "429"
               THEN warmToolsListCooldownUntil' = t + WARMUP_COOLDOWN_MS
               ELSE t = now /\ UNCHANGED warmToolsListCooldownUntil
    /\ warmToolsListPromise' = 0
    /\ warms' = [warms EXCEPT ![w] =
           IF res = "429"
           THEN [st |-> "done", failed |-> TRUE, failed429 |-> TRUE, ended |-> t]
           ELSE [NoWarm EXCEPT !.st = "done", !.failed = (res \notin Payloads)]]
    /\ now' = t
    /\ UNCHANGED <<connections, lastConnectedSessionId, chans, wire, reqs>>

\* The catch handler that starts the cooldown after every failure.
WarmReturn_CooldownAlways(w, res, t) ==
    /\ warms[w].st = "running"
    /\ t \in Readings(now)
    /\ IF res \in Payloads
       THEN /\ chatmiToolsListCache' = [data |-> res, timestamp |-> t]
            /\ warmToolsListCooldownUntil' = 0
       ELSE /\ UNCHANGED chatmiToolsListCache
            /\ res = "429" \/ t = now
            /\ warmToolsListCooldownUntil' = t + WARMUP_COOLDOWN_MS
    /\ warmToolsListPromise' = 0
    /\ warms' = [warms EXCEPT ![w] =
           IF res = "429"
           THEN [st |-> "done", failed |-> TRUE, failed429 |-> TRUE, ended |-> t]
           ELSE [NoWarm EXCEPT !.st = "done", !.failed = (res \notin Payloads)]]
    /\ now' = t
    /\ UNCHANGED <<connections, lastConnectedSessionId, chans, wire, reqs>>

\* The .finally handler that leaves the in-flight promise in place.
WarmReturn_KeepPromise(w, res, t) ==
    /\ warms[w].st = "running"
    /\ t \in Readings(now)
    /\ IF res \in Payloads
       THEN /\ chatmiToolsListCache' = [data |-> res, timestamp |-> t]
            /\ warmToolsListCooldownUntil' = 0
            /\ warmToolsListPromise' = 0
       ELSE /\ UNCHANGED <<chatmiToolsListCache, warmToolsListPromise>>
            /\ IF res = "429"
               THEN warmToolsListCooldownUntil' = t + WARMUP_COOLDOWN_MS
               ELSE t = now /\ UNCHANGED warmToolsListCooldownUntil
    /\ warms' = [warms EXCEPT ![w] =
           IF res = "429"
           THEN [st |-> "done", failed |-> TRUE, failed429 |-> TRUE, ended |-> t]
           ELSE [NoWarm EXCEPT !.st = "done", !.failed = (res \notin Payloads)]]
    /\ now' = t
    /\ UNCHANGED <<connections, lastConnectedSessionId, chans, wire, reqs>>

\* The completion of a warmToolsList call: the result is cached and the
\* cooldown reset; a failure whose message holds 429 starts the cooldown; the
\* .finally handler clears the in-flight promise either way.
WarmReturn(w, res, t) ==
    /\ warms[w].st = "running"
    /\ t \in Readings(now)
    /\ IF res \in Payloads
       THEN /\ chatmiToolsListCache' = [data |-> res, timestamp |-> t]
            /\ warmToolsListCooldownUntil' = 0
       ELSE /\ UNCHANGED chatmiToolsListCache
            /\ IF res = "429"
               THEN warmToolsListCooldownUntil' = t + WARMUP_COOLDOWN_MS
               ELSE t = now /\ UNCHANGED warmToolsListCooldownUntil
    /\ warmToolsListPromise' = 0
    /\ warms' = [warms EXCEPT ![w] =
           IF res = "429"
           THEN [st |-> "done", failed |-> TRUE, failed429 |-> TRUE, ended |-> t]
           ELSE [NoWarm EXCEPT !.st = "done", !.failed = (res \notin Payloads)]]
    /\ now' = t
    /\ UNCHANGED <<connections, lastConnectedSessionId, chans, wire, reqs>>

\* The bodies of the cache variants: tools/list, another method, and one
\* envelope without a method.
CacheBodies == {[jsonrpc |-> "2.0", method |-> m, id |-> "7"] :
                    m \in {"tools/list", "tools/call", ""}}

\* How a backend call ends: a payload, HTTP 429, or another failure.
Outcomes429 == Payloads \cup {"429", "fail"}

\* ================================================== unguarded cache variant
\* src/unnamed/part_003: the same cache; warmToolsList is called directly, by
\* every channel open that finds the cache invalid and by every request that
\* is answered from the cache.
warmToolsListStart ==
    /\ FreshWarm # 0
    /\ warms' = [warms EXCEPT ![FreshWarm] = [NoWarm EXCEPT !.st = "running"]]

\* GET /sse of part_003.  t is the reading of lines 105 and 122.
GetSseSimple(q, t) ==
    /\ FreshChan # 0
    /\ t \in Readings(now)
    /\ LET c == FreshChan
           sessionId == Or(q, GenId(t))
       IN /\ connections' = MapSet(connections, sessionId, c)
          /\ chans' = [chans EXCEPT ![c] = [NoChan EXCEPT !.st = "open",
                                                          !.sid = sessionId,
                                                          !.keepAlive = TRUE]]
    /\ IF isToolsListCacheValid(t) THEN UNCHANGED warms ELSE warmToolsListStart
    /\ now' = t
    /\ UNCHANGED <<lastConnectedSessionId, wire, reqs, chatmiToolsListCache,
                   warmToolsListPromise, warmToolsListCooldownUntil>>

\* req.on('close') of part_003.
ReqCloseSimple(c) ==
    /\ chans[c].st = "open"
    /\ chans[c].destroyed
    /\ connections' = MapDelete(connections, chans[c].sid)
    /\ chans' = [chans EXCEPT ![c] = ClosedChan]
    /\ UNCHANGED <<now, lastConnectedSessionId, wire, reqs>>
    /\ UNCHANGED cacheVars

\* POST /sse of part_003 up to the await of the backend call: the session is
\* query, header or 'default'; the delivery is an unchecked write to the
\* channel of the session, when there is one.
PostSseSimple(q, h, body, t) ==
    /\ FreshReq # 0
    /\ t \in Readings(now)
    /\ LET r == FreshReq
           sessionId == Or(q, Or(h, DefaultSession))
       IN IF Malformed(body)
          THEN /\ t = now
               /\ reqs' = [reqs EXCEPT ![r] =
                      [pc |-> "done", sessionId |-> Nil, body |-> body,
                       http |-> Http(400, "error", IdOrNull(body.id), -32600),
                       at |-> 0]]
               /\ UNCHANGED <<wire, warms>>
          ELSE IF body.method = "tools/list" /\ isToolsListCacheValid(t)
          THEN /\ wire' = sendSseEvent(wire, connections, sessionId,
                              FrameResult(r, body.id,
                                          chatmiToolsListCache.data)).wire
               /\ reqs' = [reqs EXCEPT ![r] =
                      [pc |-> "done", sessionId |-> sessionId, body |-> body,
                       http |-> HttpResult(200, body.id,
                                           chatmiToolsListCache.data),
                       at |-> t]]
               /\ warmToolsListStart
          ELSE /\ body.method # "tools/list" => t = now
               /\ reqs' = [reqs EXCEPT ![r] =
                      [pc |-> "backend", sessionId |-> sessionId, body |-> body,
                       http |-> NoHttp,
                       at |-> IF body.method = "tools/list" THEN t ELSE 0]]
               /\ UNCHANGED <<wire, warms>>
    /\ now' = t
    /\ UNCHANGED <<connections, lastConnectedSessionId, chans,
                   chatmiToolsListCache, warmToolsListPromise,
                   warmToolsListCooldownUntil>>

\* POST /sse of part_003 from the completion of sendChatmiRequest on.
ChatmiReturnSimple(r, res, t) ==
    /\ reqs[r].pc = "backend"
    /\ t \in Readings(now)
    /\ IF res \in Payloads
       THEN /\ IF reqs[r].body.method = "tools/list"
               THEN chatmiToolsListCache' = [data |-> res, timestamp |-> t]
               ELSE t = now /\ UNCHANGED chatmiToolsListCache
            /\ wire' = sendSseEvent(wire, connections, reqs[r].sessionId,
                            FrameResult(r, reqs[r].body.id, res)).wire
            /\ reqs' = [reqs EXCEPT
                   ![r].pc = "done",
                   ![r].http = HttpResult(200, reqs[r].body.id, res)]
       ELSE /\ t = now
            /\ reqs' = [reqs EXCEPT
                   ![r].pc = "done",
                   ![r].http = Http(500, "error", IdOrNull(reqs[r].body.id), -32603)]
            /\ UNCHANGED <<wire, chatmiToolsListCache>>
    /\ now' = t
    /\ UNCHANGED <<connections, lastConnectedSessionId, chans,
                   warmToolsListPromise, warmToolsListCooldownUntil, warms>>

\* The completion of a warmToolsList call of part_003: the result is cached;
\* a failure is logged and dropped.  The clock is not read on a failure: the
\* record keeps the last reading before it.
WarmReturnSimple(w, res, t) ==
    /\ warms[w].st = "running"
    /\ t \in Readings(now)
    /\ IF res \in Payloads
       THEN chatmiToolsListCache' = [data |-> res, timestamp |-> t]
       ELSE t = now /\ UNCHANGED chatmiToolsListCache
    /\ warms' = [warms EXCEPT ![w] =
           IF res = "429"
           THEN [st |-> "done", failed |-> TRUE, failed429 |-> TRUE, ended |-> t]
           ELSE [NoWarm EXCEPT !.st = "done", !.failed = (res \notin Payloads)]]
    /\ now' = t
    /\ UNCHANGED <<connections, lastConnectedSessionId, chans, wire, reqs,
                   warmToolsListPromise, warmToolsListCooldownUntil>>

\* ========================================================== specification
\* The state after the module is loaded, in a run of at most n channels and
\* m requests.
InitWith(n, m) ==
    /\ now = 0
    /\ connections = <<>>
    /\ lastConnectedSessionId = Nil
    /\ chans = [c \in 1..n |-> NoChan]
    /\ wire = [c \in 1..n |-> <<>>]
    /\ reqs = [r \in 1..m |-> NoReq]
    /\ chatmiToolsListCache = [data |-> "null", timestamp |-> 0]
    /\ warmToolsListPromise = 0
    /\ warmToolsListCooldownUntil = 0
    /\ warms = [w \in Warm |-> NoWarm]
    /\ call = NoCall

Init == InitWith(MaxChan, MaxReq)

\* src/server.js
Next ==
    \/ \E q \in Ids \cup {Nil}, t \in 0..MaxTime :
           GetSse(q, t) /\ UNCHANGED call
    \/ \E c \in Chan : ReqClose(c) /\ UNCHANGED call
    \/ \E q, h \in Ids \cup {Nil}, body \in MainBodies :
           PostSse(q, h, body) /\ UNCHANGED call
    \/ \E r \in Req, ok \in BOOLEAN : ChatmiReturn(r, ok) /\ UNCHANGED call
    \/ \E c \in Chan : Teardown(c) /\ UNCHANGED call

Spec == Init /\ [][Next]_vars

\* src/server.js with the keep-alive timers running
NextBeat ==
    \/ Next
    \/ \E c \in Chan : KeepAlive(c) /\ UNCHANGED call

SpecBeat == Init /\ [][NextBeat]_vars

\* src/server.js with requests of every kind of id
NextEcho ==
    \/ \E q \in Ids \cup {Nil}, t \in 0..MaxTime :
           GetSse(q, t) /\ UNCHANGED call
    \/ \E c \in Chan : ReqClose(c) /\ UNCHANGED call
    \/ \E q, h \in Ids \cup {Nil}, body \in EchoBodies :
           PostSse(q, h, body) /\ UNCHANGED call
    \/ \E r \in Req, ok \in BOOLEAN : ChatmiReturn(r, ok) /\ UNCHANGED call
    \/ \E c \in Chan : Teardown(c) /\ UNCHANGED call

SpecEcho == Init /\ [][NextEcho]_vars

\* src/server.js with requests in flight at the same time
InitOrder == InitWith(MaxChan, MaxReqOrder)
SpecOrder == InitOrder /\ [][Next]_vars

\* Every backend call of a request completes or fails.
SpecOrderFair ==
    SpecOrder /\ WF_vars(\E r \in Req, ok \in BOOLEAN :
                             ChatmiReturn(r, ok) /\ UNCHANGED call)

\* src/unnamed/part_002, lines 1-332
NextStrict ==
    \/ \E qs \in StrictInputs, qh \in StrictOther :
           GetSseStrict(qs, qh[1], qh[2]) /\ UNCHANGED call
    \/ \E c \in Chan : ReqCloseStrict(c) /\ UNCHANGED call
    \/ \E qs \in StrictInputs, qh \in StrictOther, body \in Bodies :
           handleMcpMessage(qs, qh[1], qh[2], body) /\ UNCHANGED call
    \/ \E r \in Req, ok \in BOOLEAN : ChatmiReturnStrict(r, ok) /\ UNCHANGED call
    \/ \E c \in Chan : Teardown(c) /\ UNCHANGED call

SpecStrict == Init /\ [][NextStrict]_vars

\* src/unnamed/part_002, lines 334-738
NextNs ==
    \/ \E p \in Prefixes \cup {Nil}, qs \in StrictInputs :
           handleSseConnection(p, qs, Nil, Nil) /\ call' = Call("GET", qs, Nil, Nil)
    \/ \E c \in Chan : ReqCloseStrict(c) /\ UNCHANGED call
    \/ \E p \in Prefixes \cup {Nil}, qs \in StrictInputs, body \in Bodies :
           handleMcpMessageNs(p, qs, Nil, Nil, body)
           /\ call' = Call("POST", qs, Nil, Nil)
    \/ \E r \in Req, ok \in BOOLEAN : ChatmiReturnStrict(r, ok) /\ UNCHANGED call
    \/ \E c \in Chan : Teardown(c) /\ UNCHANGED call

SpecNs == Init /\ [][NextNs]_vars

\* src/unnamed/part_001
NextCache ==
    \/ \E q \in Ids, t, u \in TimePoints :
           GetSseCache(q, t, u) /\ UNCHANGED call
    \/ \E c \in Chan : ReqClose(c) /\ UNCHANGED call
    \/ \E q, h \in Ids \cup {Nil}, body \in CacheBodies, t, u \in TimePoints :
           PostSseCache(q, h, body, t, u) /\ UNCHANGED call
    \/ \E r \in Req, res \in Payloads \cup {"fail"}, t \in TimePoints :
           ChatmiReturnCache(r, res, t) /\ UNCHANGED call
    \/ \E w \in Warm, res \in Outcomes429, t \in TimePoints :
           WarmReturn(w, res, t) /\ UNCHANGED call
    \/ \E c \in Chan : Teardown(c) /\ UNCHANGED call

SpecCache == Init /\ [][NextCache]_vars

\* Every backend call of a refresh completes.
SpecCacheFair ==
    SpecCache /\ WF_vars(\E w \in Warm, res \in Outcomes429, t \in TimePoints :
                             WarmReturn(w, res, t) /\ UNCHANGED call)

\* src/unnamed/part_003
NextSimple ==
    \/ \E q \in Ids, t \in TimePoints : GetSseSimple(q, t) /\ UNCHANGED call
    \/ \E c \in Chan : ReqCloseSimple(c) /\ UNCHANGED call
    \/ \E q, h \in Ids \cup {Nil}, body \in CacheBodies, t \in TimePoints :
           PostSseSimple(q, h, body, t) /\ UNCHANGED call
    \/ \E r \in Req, res \in Payloads \cup {"fail"}, t \in TimePoints :
           ChatmiReturnSimple(r, res, t) /\ UNCHANGED call
    \/ \E w \in Warm, res \in Outcomes429, t \in TimePoints :
           WarmReturnSimple(w, res, t) /\ UNCHANGED call
    \/ \E c \in Chan : Teardown(c) /\ UNCHANGED call

SpecSimple == Init /\ [][NextSimple]_vars

\* ------------------------------------------- runs that record identifiers
\* The same handlers, with the identifiers of every GET and POST kept in
\* `call`; for src/server.js the close of a channel is kept as well, with
\* the identifier its handler captured.  A GET of src/server.js may carry an x-session-id header; line 305
\* reads the query alone.  The requests include the handshake, which
\* src/server.js forwards to the backend like every other method.
QueryIds  == {Nil, "a", "b"}
HeaderIds == {Nil, "b"}

InitIds == InitWith(MaxChanIds, MaxReq)

NextIds ==
    \/ \E q \in QueryIds, h \in HeaderIds, t \in 0..MaxTime :
           GetSse(q, t) /\ call' = Call("GET", Nil, q, h)
    \/ \E c \in Chan :
           ReqClose(c) /\ call' = Call("CLOSE", Nil, chans[c].sid, Nil)
    \/ \E q \in QueryIds, h \in HeaderIds, body \in Bodies :
           PostSse(q, h, body) /\ call' = Call("POST", Nil, q, h)
    \/ \E r \in Req, ok \in BOOLEAN : ChatmiReturn(r, ok) /\ UNCHANGED call
    \/ \E c \in Chan : Teardown(c) /\ UNCHANGED call

SpecIds == InitIds /\ [][NextIds]_vars

NextStrictIds ==
    \/ \E qs \in StrictInputs, qh \in StrictOther :
           GetSseStrict(qs, qh[1], qh[2]) /\ call' = Call("GET", qs, qh[1], qh[2])
    \/ \E c \in Chan : ReqCloseStrict(c) /\ UNCHANGED call
    \/ \E qs \in StrictInputs, qh \in StrictOther, body \in Bodies :
           handleMcpMessage(qs, qh[1], qh[2], body)
           /\ call' = Call("POST", qs, qh[1], qh[2])
    \/ \E r \in Req, ok \in BOOLEAN : ChatmiReturnStrict(r, ok) /\ UNCHANGED call
    \/ \E c \in Chan : Teardown(c) /\ UNCHANGED call

SpecStrictIds == Init /\ [][NextStrictIds]_vars

\* ================================================================= claims
\* The frames on channel c that carry an outcome of request r.
Outcomes(w, c, r) ==
    {i \in 1..Len(w[c]) : w[c][i].req = r /\ w[c][i].kind \in {"result", "error"}}

\* This step delivers the reply of request r: the handler leaves the await of
\* the backend call, or answers a handshake at once.
Delivers(r) ==
    /\ reqs[r].pc # "done"
    /\ reqs'[r].pc = "done"
    /\ reqs'[r].http.status # 400

\* This step appends exactly one frame, an outcome of r, to channel c.
Pushed(r, c) ==
    /\ Len(wire'[c]) = Len(wire[c]) + 1
    /\ SubSeq(wire'[c], 1, Len(wire[c])) = wire[c]
    /\ wire'[c][Len(wire'[c])].req = r
    /\ wire'[c][Len(wire'[c])].kind \in {"result", "error"}

\* The registered channels that are open: not ended, finished or destroyed.
OpenChans == {c \in MapValues(connections) : Live(chans[c])}

\* C1  Exact delivery: when the reply of a request is delivered and the
\* session the request names is registered with a live channel, the reply
\* frame is written to that channel and nothing is written to any other.
C1_ExactDelivery ==
    [][\A r \in Req :
         (/\ Delivers(r)
          /\ MapHas(connections, reqs[r].sessionId)
          /\ Live(chans[MapGet(connections, reqs[r].sessionId)]))
         => LET c == MapGet(connections, reqs[r].sessionId)
            IN /\ Pushed(r, c)
               /\ \A d \in Chan \ {c} : wire'[d] = wire[d]]_vars

\* A delivered request whose session's live channel holds the reply while
\* another registered live channel holds nothing of it.
C1_Witness ==
    \E r \in Req, c, d \in Chan :
        /\ reqs[r].pc = "done"
        /\ MapHas(connections, reqs[r].sessionId)
        /\ MapGet(connections, reqs[r].sessionId) = c
        /\ c # d
        /\ {c, d} \subseteq OpenChans
        /\ Outcomes(wire, c, r) # {}
        /\ Outcomes(wire, d, r) = {}

\* C2  Never both: a request whose reply was written to a push channel is
\* answered over HTTP with an acknowledgement, not with the reply envelope.
C2_NeverBoth ==
    \A r \in Req :
        (reqs[r].pc = "done" /\ \E c \in Chan : Outcomes(wire, c, r) # {})
        => reqs[r].http.kind = "ack"

\* C3  At-most-once push delivery: no channel ever holds two frames that
\* carry an outcome of the same request, on the success path and on the
\* path through the catch block.
C3_AtMostOnce ==
    \A r \in Req, c \in Chan : Cardinality(Outcomes(wire, c, r)) <= 1

\* A request whose backend call failed and whose error envelope was pushed.
C3_Witness ==
    \E r \in Req, c \in Chan :
        /\ reqs[r].pc = "done"
        /\ \E i \in Outcomes(wire, c, r) :
               wire[c][i].kind = "error" /\ wire[c][i].code = -32603

\* C4  No channel: when the registry is empty at delivery time nothing is
\* written to any channel and the HTTP answer is the reply envelope itself.
C4_NoChannel ==
    [][\A r \in Req :
         (Delivers(r) /\ MapSize(connections) = 0)
         => /\ wire' = wire
            /\ reqs'[r].http.kind \in {"result", "error"}
            /\ reqs'[r].http.id \in {reqs'[r].body.id, IdOrNull(reqs'[r].body.id)}]_vars

\* A request answered over HTTP alone, after a channel had been open.
C4_Witness ==
    \E r \in Req :
        /\ reqs[r].pc = "done"
        /\ reqs[r].http.kind = "result"
        /\ MapSize(connections) = 0
        /\ \A c \in Chan : Outcomes(wire, c, r) = {}
        /\ \E c \in Chan : chans[c].st = "closed"

\* C5  Single fallback: when the identifier the request names is no key of
\* the registry and exactly one registered channel is open, the reply is
\* written to that channel.
C5_SingleFallback ==
    [][\A r \in Req :
         (/\ Delivers(r)
          /\ ~MapHas(connections, reqs[r].sessionId)
          /\ Cardinality(OpenChans) = 1)
         => \A c \in OpenChans : Pushed(r, c)]_vars

\* A reply that reached the only registered channel under another name.
C5_Witness ==
    \E r \in Req, c \in Chan :
        /\ reqs[r].pc = "done"
        /\ ~MapHas(connections, reqs[r].sessionId)
        /\ MapSize(connections) = 1
        /\ OpenChans = {c}
        /\ Outcomes(wire, c, r) # {}

\* C6  Broadcast fallback: when the identifier the request names is no key
\* of the registry and N > 1 registered channels are open, the reply is
\* written to all N.
C6_BroadcastFallback ==
    [][\A r \in Req :
         (/\ Delivers(r)
          /\ ~MapHas(connections, reqs[r].sessionId)
          /\ Cardinality(OpenChans) > 1)
         => \A c \in OpenChans : Pushed(r, c)]_vars

\* A reply that reached two registered channels, neither under its name.
C6_Witness ==
    \E r \in Req, c, d \in Chan :
        /\ reqs[r].pc = "done"
        /\ ~MapHas(connections, reqs[r].sessionId)
        /\ c # d
        /\ {c, d} \subseteq OpenChans
        /\ Outcomes(wire, c, r) # {}
        /\ Outcomes(wire, d, r) # {}

\* C7  Live-only writes: no reply frame is written to a channel that is
\* marked ended, finished or destroyed.
C7_LiveOnlyWrites ==
    [][\A r \in Req, c \in Chan : Pushed(r, c) => Live(chans[c])]_vars

\* C8  Dead-channel fallback: when the channel registered under the
\* request's identifier is not live at delivery time, the fallback chain is
\* consulted: the reply goes to the registered channels that are open.
C8_DeadChannelFallback ==
    [][\A r \in Req :
         (/\ Delivers(r)
          /\ MapHas(connections, reqs[r].sessionId)
          /\ ~Live(chans[MapGet(connections, reqs[r].sessionId)]))
         => \A c \in OpenChans : Pushed(r, c)]_vars

\* C9  Supersede on reopen: a channel-open step leaves exactly one entry
\* under its identifier, the entry refers to the new channel, no other
\* channel is changed (none is ended or destroyed) and none becomes
\* reachable through a lookup that was not reachable before; so a channel
\* superseded by open(id, c2) is never returned by a lookup again.
C9_SupersedeOnReopen ==
    [][/\ \A c \in Chan :
            (chans[c].st = "unused" /\ chans'[c].st = "open")
            => LET id == chans'[c].sid
               IN /\ Cardinality({i \in 1..Len(connections') :
                                      connections'[i].k = id}) = 1
                  /\ MapGet(connections', id) = c
                  /\ \A d \in Chan \ {c} :
                        /\ chans'[d] = chans[d]
                        /\ chans[d].sid = id => d \notin MapValues(connections')
       /\ MapValues(connections') \subseteq
             MapValues(connections) \cup {c \in Chan : chans[c].st = "unused"}]_vars

\* Two channels opened under one identifier, the first still live and
\* unreachable, the second registered.
C9_Witness ==
    \E c, d \in Chan :
        /\ c < d
        /\ chans[c].st = "open" /\ chans[d].st = "open"
        /\ chans[c].sid = chans[d].sid
        /\ Live(chans[c])
        /\ MapHas(connections, chans[d].sid)
        /\ MapGet(connections, chans[d].sid) = d
        /\ c \notin MapValues(connections)
        /\ Cardinality({i \in 1..Len(connections) :
                            connections[i].k = chans[d].sid}) = 1

\* C10  Entry lifetime: an entry id -> c leaves the registry only in the
\* step in which c closes or in which a reopen replaces c under id.
C10_EntryLifetime ==
    [][\A i \in 1..Len(connections) :
         LET e == connections[i]
         IN (\A j \in 1..Len(connections') : connections'[j] # e)
            => \/ chans'[e.v].st = "closed"
               \/ /\ MapHas(connections', e.k)
                  /\ MapGet(connections', e.k) # e.v]_vars

\* This step runs the close handler of channel c.
Closes(c) == chans[c].st = "open" /\ chans'[c].st = "closed"

\* C11  Close is idempotent and local: the close of a channel opened under id
\* leaves no entry under id; every entry under another identifier is kept
\* with its channel; a close that finds no entry under id (a second close of
\* the same id) leaves the registry as it was.
C11_CloseIdempotentLocal ==
    [][\A c \in Chan :
         Closes(c)
         => LET id == chans[c].sid
            IN /\ ~MapHas(connections', id)
               /\ MapKeys(connections') = MapKeys(connections) \ {id}
               /\ \A k \in MapKeys(connections') :
                      MapGet(connections', k) = MapGet(connections, k)
               /\ ~MapHas(connections, id) => connections' = connections]_vars

\* Two channels opened under one identifier, both closed: the second close
\* found the entry gone.
C11_Witness ==
    \E c, d \in Chan :
        /\ c # d
        /\ chans[c].st = "closed" /\ chans[d].st = "closed"
        /\ Len(wire[c]) > 0 /\ Len(wire[d]) > 0
        /\ wire[c][1].sid = wire[d][1].sid
        /\ connections = <<>>

\* C12  Malformed rejection: a request without a method or with a version
\* tag other than "2.0" is answered with error -32600, reaches no backend
\* call and causes no write to a push channel.
C12_MalformedRejection ==
    \A r \in Req :
        (reqs[r].pc # "new"
         /\ (reqs[r].body.method = "" \/ reqs[r].body.jsonrpc # "2.0"))
        => /\ reqs[r].pc = "done"
           /\ reqs[r].http.kind = "error"
           /\ reqs[r].http.code = -32600
           /\ \A c \in Chan : \A i \in 1..Len(wire[c]) : wire[c][i].req # r

\* This step is the POST call of request r, up to its first await.
Submits(r) == reqs[r].pc = "new" /\ reqs'[r].pc # "new"

\* This step is the GET /sse call that creates channel c.
Opens(c) == chans[c].st = "unused" /\ chans'[c].st = "open"

\* The identifier the call of this step supplies: query first, then header.
Supplied == Or(call'.sessionId, Or(call'.session, call'.header))

WellFormed(body) == body.jsonrpc = "2.0" /\ body.method # ""

\* C18  Single-session resolution: a request without an identifier in query
\* and headers, submitted while exactly one channel is registered and open,
\* resolves to that channel's identifier.
C18_SingleSessionResolution ==
    [][\A r \in Req :
         (/\ Submits(r)
          /\ WellFormed(reqs'[r].body)
          /\ ~Truthy(Supplied)
          /\ MapSize(connections) = 1
          /\ Cardinality(OpenChans) = 1)
         => reqs'[r].sessionId = MapFirstKey(connections)]_vars

\* The open channel opened last.
LastOpened == CHOOSE c \in OpenChans : \A d \in OpenChans : d <= c

\* C19  Most-recent resolution: a request without an identifier, submitted
\* while two or more channels are registered and open, resolves to the
\* session of the channel opened last among them.
C19_MostRecentResolution ==
    [][\A r \in Req :
         (/\ Submits(r)
          /\ WellFormed(reqs'[r].body)
          /\ ~Truthy(Supplied)
          /\ MapSize(connections) >= 2
          /\ OpenChans = MapValues(connections))
         => reqs'[r].sessionId = chans[LastOpened].sid]_vars

\* C20  Identifier priority: the channel-open call and the request call take
\* the identifier of the query when there is one, otherwise the identifier
\* of the header when there is one.
C20_IdentifierPriority ==
    [][/\ \A c \in Chan :
            (Opens(c) /\ Truthy(Supplied)) => chans'[c].sid = Supplied
       /\ \A r \in Req :
            (Submits(r) /\ WellFormed(reqs'[r].body) /\ Truthy(Supplied))
            => reqs'[r].sessionId = Supplied]_vars

\* This step starts the backend call of a refresh.
StartsRefresh == \E w \in Warm : warms[w].st = "unused" /\ warms'[w].st = "running"

\* This step answers request r from the cache, without a backend call.
ServedFromCache(r) ==
    /\ Submits(r)
    /\ reqs'[r].body.method = "tools/list"
    /\ reqs'[r].pc = "done"
    /\ reqs'[r].http.kind = "result"

\* C13  Cache TTL: every cache write is stamped with the clock reading of the
\* write; a tools/list request that arrives less than 60 s after the stamp
\* of a cached payload is answered with that payload, unchanged and without a
\* backend call; one that arrives 60 s or more after it, or finds no cached
\* payload, goes to the backend.
C13_CacheTtl ==
    [][/\ chatmiToolsListCache' # chatmiToolsListCache
            => chatmiToolsListCache'.timestamp = now'
       /\ \A r \in Req :
            (Submits(r) /\ reqs'[r].body.method = "tools/list")
            => IF /\ chatmiToolsListCache.data # "null"
                  /\ reqs'[r].at - chatmiToolsListCache.timestamp < 60 * 1000
               THEN /\ reqs'[r].pc = "done"
                    /\ reqs'[r].http.kind = "result"
                    /\ reqs'[r].http.result = chatmiToolsListCache.data
                    /\ chatmiToolsListCache' = chatmiToolsListCache
               ELSE reqs'[r].pc = "backend"]_vars

\* A tools/list request answered from the cache 59.999 s after the write.
C13_Witness ==
    \E r \in Req :
        /\ reqs[r].pc = "done"
        /\ reqs[r].body.method = "tools/list"
        /\ reqs[r].http.kind = "result"
        /\ reqs[r].http.result = chatmiToolsListCache.data
        /\ chatmiToolsListCache.timestamp = 0
        /\ reqs[r].at = 60 * 1000 - 1

\* C14  Cooldown: no refresh starts its backend call less than 10 s after a
\* refresh has failed with a rate-limit failure, whichever call site
\* triggers it.
C14_Cooldown ==
    [][StartsRefresh
       => \A x \in Warm :
              warms[x].failed429 => now' >= warms[x].ended + 10000]_vars

\* C15  Single-flight refresh: at most one refresh backend call is
\* outstanding at any instant.
C15_SingleFlight ==
    Cardinality({w \in Warm : warms[w].st = "running"}) <= 1

\* C16  In-flight release: the step that completes a refresh, by success or
\* by failure, clears the in-flight marker; a channel open that then finds
\* the cache invalid, no cooldown and no marker starts a new refresh; and,
\* every backend call completing, a set marker is eventually cleared.
C16_InFlightRelease ==
    /\ [][/\ \A w \in Warm :
                (warms[w].st = "running" /\ warms'[w].st = "done")
                => warmToolsListPromise' = 0
           /\ \A c \in Chan :
                (/\ Opens(c)
                 /\ warmToolsListPromise = 0
                 /\ \/ chatmiToolsListCache.data = "null"
                    \/ now' - chatmiToolsListCache.timestamp >= 60 * 1000
                 /\ now' >= warmToolsListCooldownUntil)
                => StartsRefresh /\ warmToolsListPromise' # 0]_vars
    /\ (warmToolsListPromise # 0) ~> (warmToolsListPromise = 0)

\* A refresh that failed with HTTP 429, and a later refresh in flight.
C16_Witness ==
    \E w, x \in Warm :
        /\ warms[w].st = "done" /\ warms[w].failed429
        /\ warms[x].st = "running"
        /\ warmToolsListPromise = x

\* C17  Serve-then-refresh: the request that is answered from the cache
\* starts a background refresh, unless a cooldown is active or a refresh is
\* in flight.
C17_ServeThenRefresh ==
    [][\A r \in Req :
         (/\ ServedFromCache(r)
          /\ warmToolsListPromise = 0
          /\ now' >= warmToolsListCooldownUntil)
         => StartsRefresh]_vars

\* C21  Strict-mode rejection: a request call of the strict variant whose
\* supplied identifier is absent or is no UUID is answered in the same step
\* with HTTP 400 and error -32602, reaches no backend call, writes to no
\* channel and leaves the registry as it was.
C21_StrictRejection ==
    [][\A r \in Req :
         (Submits(r) /\ (~Truthy(Supplied) \/ ~UUID_REGEX(Supplied)))
         => /\ reqs'[r].pc = "done"
            /\ reqs'[r].http.status = 400
            /\ reqs'[r].http.kind = "error"
            /\ reqs'[r].http.code = -32602
            /\ wire' = wire
            /\ connections' = connections]_vars

\* A well-formed request rejected for its malformed identifier while a
\* channel is registered.
C21_Witness ==
    \E r \in Req :
        /\ call.op = "POST" /\ call.sessionId = "bad"
        /\ reqs[r].pc = "done"
        /\ WellFormed(reqs[r].body)
        /\ reqs[r].http.code = -32602
        /\ MapSize(connections) >= 1

\* This step completes the backend call of request r with a failure: the
\* handler leaves the await and no result of r goes out, by HTTP or by push.
FailsBackend(r) ==
    /\ reqs[r].pc = "backend"
    /\ reqs'[r].pc = "done"
    /\ reqs'[r].http.kind # "result"
    /\ \A c \in Chan : \A i \in Outcomes(wire', c, r) : wire'[c][i].kind # "result"

\* C22  Backend failure delivery: when the backend call of a request fails,
\* the error envelope, with code -32603 and the id of the request, is written
\* to the live channel registered under the request's session, the channel
\* the result would have been written to.
C22_BackendFailureDelivery ==
    [][\A r \in Req :
         (/\ FailsBackend(r)
          /\ MapHas(connections, reqs[r].sessionId)
          /\ Live(chans[MapGet(connections, reqs[r].sessionId)]))
         => LET c == MapGet(connections, reqs[r].sessionId)
            IN /\ Pushed(r, c)
               /\ wire'[c][Len(wire'[c])].kind = "error"
               /\ wire'[c][Len(wire'[c])].code = -32603
               /\ wire'[c][Len(wire'[c])].id = reqs[r].body.id]_vars

\* C23  Handshake short-circuit: a well-formed initialize request that is not
\* rejected for its session is answered in the step that submits it, without
\* a backend call, with a result carrying its id: on the channel of its
\* session when one is registered, in the HTTP answer otherwise.
C23_HandshakeShortCircuit ==
    [][\A r \in Req :
         (/\ Submits(r)
          /\ WellFormed(reqs'[r].body)
          /\ reqs'[r].body.method = "initialize"
          /\ reqs'[r].http.code # -32602)
         => /\ reqs'[r].pc = "done"
            /\ IF MapHas(connections, reqs'[r].sessionId)
               THEN LET c == MapGet(connections, reqs'[r].sessionId)
                    IN /\ Pushed(r, c)
                       /\ wire'[c][Len(wire'[c])].kind = "result"
                       /\ wire'[c][Len(wire'[c])].id = reqs'[r].body.id
               ELSE /\ wire' = wire
                    /\ reqs'[r].http.kind = "result"
                    /\ reqs'[r].http.id = reqs'[r].body.id]_vars

\* C24  Late reply dropped: when the channel of session S closes while the
\* backend call of a request resolved to S is in flight, and no channel is
\* registered under S when the call completes, the request still completes
\* and its reply is written to no push channel.
C24_LateReplyDropped ==
    [][\A r \in Req :
         (/\ Delivers(r)
          /\ reqs[r].pc = "backend"
          /\ call.op = "CLOSE"
          /\ call.session = reqs[r].sessionId
          /\ ~MapHas(connections, reqs[r].sessionId))
         => wire' = wire]_vars

\* This step completes the refresh w with a failure.
FailsRefresh(w) ==
    warms[w].st = "running" /\ warms'[w].st = "done" /\ warms'[w].failed

\* C25  Refresh failure leaves the cache untouched: a refresh that fails
\* changes neither the cached payload nor its timestamp; it sets the cooldown
\* to the time of the failure plus 10 s when the failure is a rate limit, and
\* leaves the cooldown as it was after any other failure.
C25_RefreshFailure ==
    [][\A w \in Warm :
         FailsRefresh(w)
         => /\ chatmiToolsListCache' = chatmiToolsListCache
            /\ IF warms'[w].failed429
               THEN warmToolsListCooldownUntil' = now' + 10000
               ELSE warmToolsListCooldownUntil' = warmToolsListCooldownUntil]_vars

\* A refresh that failed for another reason than a rate limit while the
\* cooldown of an earlier rate-limit failure was set and a payload was cached.
C25_Witness ==
    \E w, x \in Warm :
        /\ warms[w].st = "done" /\ warms[w].failed429
        /\ warms[x].st = "done" /\ warms[x].failed /\ ~warms[x].failed429
        /\ warmToolsListCooldownUntil = warms[w].ended + 10000
        /\ chatmiToolsListCache.data # "null"

\* C26  Refresh success is atomic: the step that completes a refresh with a
\* result installs the payload, stamps it with the time of that step and
\* clears the cooldown, all at once; and no step of any handler changes the
\* cached payload without stamping it in the same step.
C26_RefreshSuccessAtomic ==
    [][/\ \A w \in Warm :
            (warms[w].st = "running" /\ warms'[w].st = "done" /\ ~warms'[w].failed)
            => /\ chatmiToolsListCache'.data \in Payloads
               /\ chatmiToolsListCache'.timestamp = now'
               /\ warmToolsListCooldownUntil' = 0
       /\ chatmiToolsListCache'.data # chatmiToolsListCache.data
            => chatmiToolsListCache'.timestamp = now']_vars

\* A refresh that succeeded after the cooldown of a rate-limit failure had
\* run out: the payload is stamped after the cooldown, and the cooldown is
\* cleared.
C26_Witness ==
    \E w, x \in Warm :
        /\ warms[w].st = "done" /\ warms[w].failed429
        /\ warms[x].st = "done" /\ ~warms[x].failed
        /\ chatmiToolsListCache.data # "null"
        /\ chatmiToolsListCache.timestamp >= warms[w].ended + 10000
        /\ warmToolsListCooldownUntil = 0

\* C27  Completion-order delivery: when the backend call of a request
\* completes and the request's session is registered with a live channel,
\* the reply goes to the end of that channel: behind the reply of every
\* request of the same session that completed before, while a request of the
\* same session that is still in flight has no reply on the channel yet.
C27_CompletionOrder ==
    [][\A r, q \in Req :
         (/\ r # q
          /\ Delivers(r)
          /\ reqs[r].pc = "backend"
          /\ reqs[q].pc # "new"
          /\ reqs[q].sessionId = reqs[r].sessionId
          /\ MapHas(connections, reqs[r].sessionId)
          /\ Live(chans[MapGet(connections, reqs[r].sessionId)]))
         => LET c == MapGet(connections, reqs[r].sessionId)
            IN /\ Pushed(r, c)
               /\ reqs[q].pc = "backend" => Outcomes(wire', c, q) = {}
               /\ \A i \in Outcomes(wire', c, q) : i < Len(wire'[c])]_vars

\* Two requests of one session on its channel: the reply of the request
\* submitted second lies before the reply of the request submitted first.
C27_Witness ==
    \E c \in Chan, r, q \in Req :
        /\ r < q
        /\ reqs[r].sessionId = reqs[q].sessionId
        /\ MapHas(connections, reqs[r].sessionId)
        /\ MapGet(connections, reqs[r].sessionId) = c
        /\ \E i \in Outcomes(wire, c, r), j \in Outcomes(wire, c, q) : j < i

\* This step writes a keep-alive ping to channel c.
PingWritten(c) ==
    /\ Len(wire'[c]) = Len(wire[c]) + 1
    /\ wire'[c][Len(wire'[c])].kind = "ping"

\* C28  Heartbeat scoped to channel: the step that opens a channel starts its
\* heartbeat, and no ping is written to a channel whose close handler has
\* run, superseded or not.
C28_HeartbeatScoped ==
    [][\A c \in Chan :
         /\ Opens(c) => chans'[c].keepAlive
         /\ PingWritten(c) => chans[c].st = "open"
         /\ Closes(c) => ~chans'[c].keepAlive]_vars

\* This step is a run of the keep-alive callback of c whose write fails.
FailedPing(c) ==
    /\ chans'[c].pings = chans[c].pings + 1
    /\ wire'[c] = wire[c]

\* C29  Heartbeat failure containment: a heartbeat write that fails stops the
\* heartbeat of its channel, and changes no request and no other channel.
C29_HeartbeatFailureContained ==
    [][\A c \in Chan :
         FailedPing(c)
         => /\ ~chans'[c].keepAlive
            /\ reqs' = reqs
            /\ connections' = connections
            /\ \A d \in Chan \ {c} : chans'[d] = chans[d] /\ wire'[d] = wire[d]]_vars

\* C30  No automatic retry: the backend call of a request starts in the step
\* that submits the request and in no other, so a request has at most one;
\* a request that is answered stays answered; and the backend call of a
\* refresh starts only in a step that opens a channel or submits a request,
\* never in the step in which a backend call or a refresh fails.
C30_NoAutomaticRetry ==
    [][/\ \A r \in Req :
            /\ (reqs'[r].pc = "backend" /\ reqs[r].pc # "backend") => Submits(r)
            /\ reqs[r].pc = "done" => reqs'[r] = reqs[r]
       /\ StartsRefresh => \/ \E c \in Chan : Opens(c)
                           \/ \E r \in Req : Submits(r)
       /\ Cardinality({w \in Warm : warms[w].st = "unused"
                                    /\ warms'[w].st = "running"}) <= 1]_vars

\* A request whose backend call failed, a refresh that failed, and a later
\* refresh in flight.
C30_Witness ==
    /\ \E r \in Req : reqs[r].pc = "done" /\ reqs[r].http.code = -32603
    /\ \E w, x \in Warm :
           /\ warms[w].st = "done" /\ warms[w].failed
           /\ warms[x].st = "running"

\* C31  Strict registry keys: every key of the registry of the strict variant
\* has the shape of a UUID; a channel-open call that supplies an identifier
\* of another shape registers the channel under a generated identifier that
\* was no key before, not under the supplied value.
C31_StrictRegistryKeys ==
    /\ [](\A k \in MapKeys(connections) : UUID_REGEX(k))
    /\ [][\A c \in Chan :
            (Opens(c) /\ Truthy(Supplied) /\ ~UUID_REGEX(Supplied))
            => /\ chans'[c].sid # Supplied
               /\ chans'[c].sid \in GenUuids
               /\ ~MapHas(connections, chans'[c].sid)
               /\ MapHas(connections', chans'[c].sid)
               /\ MapGet(connections', chans'[c].sid) = c]_vars

\* A channel opened with a malformed identifier and registered under a
\* generated one, next to a channel registered under a client's UUID.
C31_Witness ==
    \E c \in Chan :
        /\ call.op = "GET" /\ call.sessionId = "bad"
        /\ chans[c].st = "open"
        /\ chans[c].sid \in GenUuids
        /\ MapHas(connections, chans[c].sid)
        /\ MapGet(connections, chans[c].sid) = c
        /\ MapHas(connections, "u1")

\* C32  Endpoint event first: the step that opens a channel of the strict
\* variant writes the endpoint event, with the identifier the channel is
\* registered under, as the first frame of the channel; so every channel
\* that holds a frame holds the endpoint event before every reply.
C32_EndpointFirst ==
    /\ [](\A c \in Chan :
            /\ chans[c].st # "unused"
                 => Len(wire[c]) >= 1 /\ wire[c][1].kind = "endpoint"
            /\ chans[c].st = "open" => wire[c][1].sid = chans[c].sid
            /\ chans[c].st = "unused" => wire[c] = <<>>)
    /\ [][\A c \in Chan :
            Opens(c)
            => wire'[c] = <<Frame("endpoint", "", "endpoint", 0, "", 0,
                                  chans'[c].sid)>>]_vars

\* A channel that holds its endpoint event and then the reply of a request.
C32_Witness ==
    \E c \in Chan :
        /\ Len(wire[c]) >= 2
        /\ wire[c][1].kind = "endpoint"
        /\ wire[c][1].sid = chans[c].sid
        /\ wire[c][2].req # 0

\* The route prefix stored with the registry entry of sessionId, Nil when
\* there is no entry or no prefix.
StoredPrefix(sessionId) ==
    IF MapHas(connections, sessionId)
    THEN chans[MapGet(connections, sessionId)].routePrefix
    ELSE Nil

\* C33  Backend target selection by namespace: the endpoint of the backend
\* call of a request is built from the prefix of the request's own route
\* when it has one, otherwise from the prefix stored with the entry of its
\* session, otherwise it is the fallback endpoint; a request whose prefix
\* differs from the stored one is not rejected, and no request changes a
\* stored prefix.
C33_BackendTarget ==
    [][\A r \in Req :
         Submits(r)
         => /\ chans' = chans /\ connections' = connections
            /\ reqs'[r].pc = "backend"
                 => reqs'[r].endpoint =
                       IF Truthy(reqs'[r].param)
                       THEN <<"base", reqs'[r].param, "bot_api_webhook">>
                       ELSE IF Truthy(StoredPrefix(reqs'[r].sessionId))
                       THEN <<"base", StoredPrefix(reqs'[r].sessionId),
                              "bot_api_webhook">>
                       ELSE <<"base", "bot_api_webhook">>
            /\ (/\ UUID_REGEX(Supplied)
                /\ reqs'[r].body.jsonrpc = "2.0"
                /\ Truthy(reqs'[r].param)
                /\ Truthy(StoredPrefix(Supplied))
                /\ reqs'[r].param # StoredPrefix(Supplied))
                 => reqs'[r].http.status # 400]_vars

\* A request in flight whose route has one prefix while the entry of its
\* session holds another: the endpoint is the one of the request's prefix.
C33_Witness ==
    \E r \in Req :
        /\ reqs[r].pc = "backend"
        /\ reqs[r].param = "x"
        /\ StoredPrefix(reqs[r].sessionId) = "y"
        /\ reqs[r].endpoint = <<"base", "x", "bot_api_webhook">>

\* C34  Last-connected invariant: in the main variant lastConnectedSessionId
\* is null exactly when the registry is empty and is a key of the registry
\* otherwise; so a request that supplies no identifier resolves to 'default'
\* only when no channel is registered.
C34_LastConnected ==
    /\ [](/\ lastConnectedSessionId = Nil <=> MapSize(connections) = 0
          /\ lastConnectedSessionId # Nil
               => MapHas(connections, lastConnectedSessionId))
    /\ [][\A r \in Req :
            (Submits(r) /\ reqs'[r].sessionId = DefaultSession)
            => MapSize(connections) = 0]_vars

\* A request resolved to 'default' after the registry had been emptied by
\* the close of its channels.
C34_Witness ==
    /\ \E r \in Req : reqs[r].sessionId = DefaultSession
    /\ \E c \in Chan : chans[c].st = "closed"
    /\ lastConnectedSessionId = Nil

\* C35  Reply id echo: every envelope that answers a request, in the HTTP
\* answer and on a push channel, whether result, backend error or rejection,
\* carries the id of the request, the number zero and the empty string
\* included.
C35_ReplyIdEcho ==
    \A r \in Req :
        /\ (reqs[r].pc = "done" /\ reqs[r].http.kind \in {"result", "error"})
             => reqs[r].http.id = reqs[r].body.id
        /\ \A c \in Chan : \A i \in Outcomes(wire, c, r) :
               wire[c][i].id = reqs[r].body.id

\* C36  Generated identifiers are fresh: a channel-open call that supplies no
\* identifier is registered under an identifier that is no key of the
\* registry and the identifier of no open channel, so it supersedes none.
C36_GeneratedIdsFresh ==
    [][\A c \in Chan :
         (Opens(c) /\ ~Truthy(Supplied))
         => /\ ~MapHas(connections, chans'[c].sid)
            /\ \A d \in Chan \ {c} :
                   chans[d].st = "open" => chans[d].sid # chans'[c].sid
            /\ MapSize(connections') = MapSize(connections) + 1]_vars

\* ------------------------------------------------------------------- C37
\* The synchronous HTTP answer of request r has been sent.
Answered(r) == reqs[r].http.kind # "none"

\* An envelope of the given kind that answers r is on some channel.
PushedKind(r, kind) ==
    \E c \in Chan : \E i \in DOMAIN wire[c] :
        wire[c][i].req = r /\ wire[c][i].kind = kind

\* The four terminal states of a request.
RejectedMalformed(r) ==
    reqs[r].http.status = 400 /\ reqs[r].http.code = -32600
RejectedNoSession(r) ==
    reqs[r].http.status = 400 /\ reqs[r].http.code = -32602
BackendError(r) ==
    \/ reqs[r].http.code = -32603
    \/ reqs[r].http.kind = "ack" /\ PushedKind(r, "error")
Delivered(r) ==
    \/ reqs[r].http.kind = "result"
    \/ reqs[r].http.kind = "ack" /\ PushedKind(r, "result")

TerminalStates(r) ==
    Cardinality({k \in {"malformed", "no-session", "backend-error", "delivered"} :
        \/ k = "malformed" /\ RejectedMalformed(r)
        \/ k = "no-session" /\ RejectedNoSession(r)
        \/ k = "backend-error" /\ BackendError(r)
        \/ k = "delivered" /\ Delivered(r)})

\* C37: given that every backend call completes or fails, every request is
\* answered: no request stays waiting for the backend; a request is finished
\* exactly when its HTTP answer has been sent; a finished request is in
\* exactly one of the four terminal states; and once the answer is sent the
\* request never changes again (no second answer), whatever channels open
\* and close in between.
C37_ExactlyOneResponse ==
    /\ []<>(\A r \in Req : reqs[r].pc # "backend")
    /\ [](\A r \in Req : /\ reqs[r].pc = "done" <=> Answered(r)
                         /\ Answered(r) => TerminalStates(r) = 1
                         /\ ~Answered(r) => TerminalStates(r) = 0)
    /\ [][\A r \in Req : Answered(r) => reqs'[r] = reqs[r]]_vars

\* Two requests finished in different terminal states, one failed and one
\* delivered, and a channel has been closed.
C37_Witness ==
    /\ \E r, q \in Req : BackendError(r) /\ Delivered(q)
    /\ \E c \in Chan : chans[c].st = "closed"
    /\ \A r \in Req : reqs[r].pc = "done"

\* ------------------------------------------------------------------- C38
\* C38: a step that delivers a reply leaves the registry and
\* lastConnectedSessionId as they were, also when the channel it addresses
\* is not live; the registry and lastConnectedSessionId change only in a
\* step that opens or closes a channel; an identifier enters the registry
\* only with the open of a channel under it and leaves it only with the
\* close of a channel that was opened under it.
C38_DeliveryKeepsRegistry ==
    [][/\ (\E r \in Req : Delivers(r))
          => /\ connections' = connections
             /\ lastConnectedSessionId' = lastConnectedSessionId
       /\ (connections' # connections
           \/ lastConnectedSessionId' # lastConnectedSessionId)
          => \E c \in Chan : Opens(c) \/ Closes(c)
       /\ \A k \in MapKeys(connections') \ MapKeys(connections) :
              \E c \in Chan : Opens(c) /\ chans'[c].sid = k
       /\ \A k \in MapKeys(connections) \ MapKeys(connections') :
              \E c \in Chan : Closes(c) /\ chans[c].sid = k]_vars

\* A delivered request whose channel is registered and destroyed, and got no
\* reply: the delivery skipped it and its entry is still there.
C38_Witness ==
    \E r \in Req :
        /\ reqs[r].pc = "done"
        /\ reqs[r].http.status = 200
        /\ MapHas(connections, reqs[r].sessionId)
        /\ LET c == MapGet(connections, reqs[r].sessionId)
           IN /\ chans[c].destroyed
              /\ Outcomes(wire, c, r) = {}

\* ------------------------------------------------------------------- C39
\* This step is the successful completion of the backend call of a
\* tools/list request, with the given result.
ListSucceeds(r, result) ==
    /\ reqs[r].pc = "backend"
    /\ reqs[r].body.method = "tools/list"
    /\ reqs'[r].pc = "done"
    /\ reqs'[r].http.kind = "result"
    /\ reqs'[r].http.result = result

\* This step is the successful completion of a refresh (always tools/list).
RefreshSucceeds(w) ==
    warms[w].st = "running" /\ warms'[w].st = "done" /\ ~warms'[w].failed

\* C39: the cache is as it was constructed (no payload, timestamp 0) or holds
\* a backend result stamped with a clock reading that has been made; it
\* changes only in a step that completes a tools/list backend call
\* successfully (a request's or a refresh's), to the result of that call
\* stamped with the clock reading of that step; no failed call and no call
\* of another method writes it, and the timestamp never decreases.
C39_CacheContent ==
    /\ [](\/ chatmiToolsListCache = [data |-> "null", timestamp |-> 0]
          \/ /\ chatmiToolsListCache.data \in Payloads
             /\ chatmiToolsListCache.timestamp \in 0..now)
    /\ [][/\ chatmiToolsListCache' # chatmiToolsListCache
             => /\ \/ \E r \in Req :
                         ListSucceeds(r, chatmiToolsListCache'.data)
                   \/ \E w \in Warm : RefreshSucceeds(w)
                /\ chatmiToolsListCache'.data \in Payloads
                /\ chatmiToolsListCache'.timestamp = now'
          /\ chatmiToolsListCache'.timestamp >= chatmiToolsListCache.timestamp
          /\ \A r \in Req :
                 (reqs[r].pc = "backend" /\ reqs'[r].pc = "done"
                  /\ (reqs'[r].http.kind = "error"
                      \/ reqs[r].body.method # "tools/list"))
                 => chatmiToolsListCache' = chatmiToolsListCache
          /\ \A w \in Warm :
                 FailsRefresh(w) => chatmiToolsListCache' = chatmiToolsListCache
       ]_vars

\* The cache holds the result of a tools/list request, stamped with a later
\* reading than the start, after a refresh has failed and a request of
\* another kind would have had no effect on it.
C39_Witness ==
    /\ chatmiToolsListCache.data \in Payloads \ {"null"}
    /\ chatmiToolsListCache.timestamp > 0
    /\ chatmiToolsListCache.timestamp = now
    /\ \E r \in Req : /\ reqs[r].pc = "done"
                      /\ reqs[r].body.method = "tools/list"
                      /\ reqs[r].http.kind = "result"
                      /\ reqs[r].http.result = chatmiToolsListCache.data
    /\ \E w \in Warm : warms[w].st = "done" /\ warms[w].failed

\* ------------------------------------------------------------------- C40
\* The session-start frames that channel c has received.
SessionFrames(c) ==
    {i \in DOMAIN wire[c] : wire[c][i].kind = "session"}

\* C40: the step that opens channel c appends one frame to c, the
\* session-start frame with the identifier c is opened under, and writes to no
\* other channel, whatever the registry holds; so a channel never holds more
\* than one session-start frame, and holds it in front of everything else.
C40_SessionFramePrivate ==
    /\ [][\A c \in Chan :
            Opens(c)
            => /\ wire'[c] = Append(wire[c],
                                 Frame("", "session", "session", 0, "", 0,
                                       chans'[c].sid))
               /\ \A d \in Chan \ {c} : wire'[d] = wire[d]]_vars
    /\ [](\A c \in Chan : SessionFrames(c) \subseteq {1})

\* Two channels are open under different identifiers, the second opened
\* while the first was registered; each holds its own session-start frame
\* and the first one also holds a reply.
C40_Witness ==
    \E c, d \in Chan :
        /\ c # d
        /\ chans[c].st = "open" /\ chans[d].st = "open"
        /\ chans[c].sid # chans[d].sid
        /\ MapHas(connections, chans[c].sid) /\ MapHas(connections, chans[d].sid)
        /\ SessionFrames(c) = {1} /\ SessionFrames(d) = {1}
        /\ wire[c][1].sid = chans[c].sid /\ wire[d][1].sid = chans[d].sid
        /\ Len(wire[c]) = 2 /\ Len(wire[d]) = 1

====
